---- MODULE Spec2Model ----
(***************************************************************************)
(* Model of Init.Services (package initialize), the service-topology       *)
(* initializer of clair: a switch over i.conf.Mode that constructs local   *)
(* claircore services (libindex.New, libvuln.New, notifier.New) or remote  *)
(* HTTP clients (client.NewHTTP over a client built by conf.Client) and    *)
(* publishes them in the fields i.Indexer, i.Matcher and i.Notifier.       *)
(*                                                                         *)
(* Every call the function makes to a collaborator is one action; the      *)
(* collaborator's outcome (error or not, authenticated or not) is chosen   *)
(* nondeterministically.  A constructor's success and the statements up to *)
(* the next call (including the final field assignments) are one action.   *)
(***************************************************************************)
EXTENDS Integers, Sequences, FiniteSets

\* Number of Services() calls explored on one Init value.
MaxCalls == 3

VARIABLES
    conf,           \* i.conf: the configuration the Init was built from
    Indexer,        \* i.Indexer
    Matcher,        \* i.Matcher
    Notifier,       \* i.Notifier
    pc,             \* position inside Services(): "idle", a call site, "done"
    err,            \* the value Services() returned ("nil" = success)
    run,            \* number of Services() calls started so far
    pre,            \* the three fields as they were when the call started
    log,            \* collaborator calls made by the current run, in order
    libI,           \* local variable libI
    libV,           \* local variable libV
    c,              \* local variable c (the *http.Client in scope)
    remoteIndexer,  \* local variable remoteIndexer
    remoteMatcher,  \* local variable remoteMatcher
    n               \* local variable n

vars == <<conf, Indexer, Matcher, Notifier, pc, err, run, pre, log,
          libI, libV, c, remoteIndexer, remoteMatcher, n>>

fields == <<Indexer, Matcher, Notifier>>
locals == <<libI, libV, c, remoteIndexer, remoteMatcher, n>>

----------------------------------------------------------------------------
\* Values

\* A nil interface value / nil pointer.
Nil == [kind |-> "nil"]

\* config.Mode values named by the switch.
ComboMode == "combo"
IndexerMode == "indexer"
MatcherMode == "matcher"
NotifierMode == "notifier"
KnownModes == {ComboMode, IndexerMode, MatcherMode, NotifierMode}
\* Mode values no case matches: the zero value and an unrecognised one.
OtherModes == {"", "bogus"}
Modes == KnownModes \cup OtherModes

\* The two package-level claims.
intraserviceClaim == "clair-intraservice"
notifierClaim == "clair-notifier"

\* The Notifier section of the configuration.  The delivery settings are
\* non-zero values so that a dropped field is visible in the options.
NotifierConfs ==
    [DeliveryInterval : {"1m"}, ConnString : {"notifier-db"},
     PollInterval : {"30s"}, Migrations : BOOLEAN, DisableSummary : BOOLEAN,
     Webhook : {"webhook-conf"}, AMQP : {"amqp-conf"}, STOMP : {"stomp-conf"},
     IndexerAddr : {"http://indexer.n"}, MatcherAddr : {"http://matcher.n"}]

MatcherConfs == [IndexerAddr : {"http://indexer.m"}]

\* i.conf: Mode, Auth.Any(), and the Matcher and Notifier sections.
Confs == [Mode : Modes, AuthAny : BOOLEAN,
          Matcher : MatcherConfs, Notifier : NotifierConfs]

\* The zero value of notifier.Opts: what a struct literal leaves in the
\* fields it does not name.
ZeroOpts ==
    [DeliveryInterval |-> "", ConnString |-> "", Indexer |-> Nil,
     Matcher |-> Nil, Client |-> Nil, Migrations |-> FALSE,
     PollInterval |-> "", DisableSummary |-> FALSE,
     Webhook |-> "", AMQP |-> "", STOMP |-> ""]

\* The instance libindex.New returns on success (gen: the run that built it).
LocalIndexer(g) == [kind |-> "local", svc |-> "libindex", gen |-> g]

\* The instance libvuln.New returns on success.
LocalMatcher(g) == [kind |-> "local", svc |-> "libvuln", gen |-> g]

\* The client conf.Client returns on success.
HTTPClient(claim, authed) == [kind |-> "client", claim |-> claim, authed |-> authed]

\* The handle client.NewHTTP returns on success.
RemoteHandle(addr, cl, g) == [kind |-> "remote", addr |-> addr, client |-> cl, gen |-> g]

\* The service notifier.New returns on success.
LocalNotifier(opts, g) == [kind |-> "local", svc |-> "notifier", opts |-> opts, gen |-> g]

\* One entry of the call log.
Entry(fn, arg, ok, auth) == [fn |-> fn, arg |-> arg, ok |-> ok, auth |-> auth]

----------------------------------------------------------------------------
\* Initial state: an Init value whose Services() has not run, all three
\* service fields nil.

Init ==
    /\ conf \in Confs
    /\ Indexer = Nil /\ Matcher = Nil /\ Notifier = Nil
    /\ pc = "idle"
    /\ err = "nil"
    /\ run = 0
    /\ pre = <<Nil, Nil, Nil>>
    /\ log = <<>>
    /\ libI = Nil /\ libV = Nil /\ c = Nil
    /\ remoteIndexer = Nil /\ remoteMatcher = Nil /\ n = Nil

\* return <e>: Services() ends with error e, touching no field.
Fail(e) ==
    /\ pc' = "done"
    /\ err' = e
    /\ UNCHANGED <<fields>>


\* The call site a mode's case starts at.
FirstSite(mode) ==
    CASE mode = ComboMode -> "combo:libindex.New"
      [] mode = IndexerMode -> "indexer:libindex.New"
      [] mode = MatcherMode -> "matcher:libvuln.New"
      [] mode = NotifierMode -> "notifier:Client"

\* Entry into Services(): a fresh frame, every local at its zero value.
Begin ==
    /\ pc = "idle"
    /\ run < MaxCalls
    /\ run' = run + 1
    /\ pre' = fields
    /\ log' = <<>>
    /\ libI' = Nil /\ libV' = Nil /\ c' = Nil
    /\ remoteIndexer' = Nil /\ remoteMatcher' = Nil /\ n' = Nil
    /\ UNCHANGED conf

\* switch i.conf.Mode, one of the four cases matches.
Services ==
    /\ Begin
    /\ conf.Mode \in KnownModes
    /\ pc' = FirstSite(conf.Mode)
    /\ err' = "nil"
    /\ UNCHANGED fields

\* DefaultCase as it would be if an unmatched mode fell through to the
\* ComboMode case.
DefaultCaseFallsThrough ==
    /\ Begin
    /\ conf.Mode \notin KnownModes
    /\ pc' = "combo:libindex.New"
    /\ err' = "nil"
    /\ UNCHANGED fields

\* default: return fmt.Errorf("could not determine passed in mode: %v", ...)
DefaultCase ==
    /\ Begin
    /\ conf.Mode \notin KnownModes
    /\ Fail("could not determine passed in mode")

----------------------------------------------------------------------------
\* case config.ComboMode

\* libI, err := libindex.New(...)
ComboLibindexNew ==
    /\ pc = "combo:libindex.New"
    /\ \E ok \in BOOLEAN :
         /\ log' = Append(log, Entry("libindex.New", "", ok, FALSE))
         /\ IF ok
            THEN /\ libI' = LocalIndexer(run)
                 /\ pc' = "combo:libvuln.New"
                 /\ UNCHANGED <<err, fields>>
            ELSE /\ Fail("failed to initialize libindex")
                 /\ UNCHANGED libI
    /\ UNCHANGED <<conf, run, pre, libV, c, remoteIndexer, remoteMatcher, n>>

\* ComboLibvulnNew as it would be if the indexer were assigned to its field
\* as soon as it is built: a failing libvuln.New leaves it published.
ComboLibvulnNewPartialPublish ==
    /\ pc = "combo:libvuln.New"
    /\ \E ok \in BOOLEAN :
         /\ log' = Append(log, Entry("libvuln.New", "", ok, FALSE))
         /\ IF ok
            THEN /\ libV' = LocalMatcher(run)
                 /\ pc' = "combo:Client"
                 /\ UNCHANGED <<err, fields>>
            ELSE /\ pc' = "done"
                 /\ err' = "failed to initialize libvuln"
                 /\ Indexer' = libI
                 /\ UNCHANGED <<Matcher, Notifier, libV>>
    /\ UNCHANGED <<conf, run, pre, libI, c, remoteIndexer, remoteMatcher, n>>

\* libV, err := libvuln.New(...)
ComboLibvulnNew ==
    /\ pc = "combo:libvuln.New"
    /\ \E ok \in BOOLEAN :
         /\ log' = Append(log, Entry("libvuln.New", "", ok, FALSE))
         /\ IF ok
            THEN /\ libV' = LocalMatcher(run)
                 /\ pc' = "combo:Client"
                 /\ UNCHANGED <<err, fields>>
            ELSE /\ Fail("failed to initialize libvuln")
                 /\ UNCHANGED libV
    /\ UNCHANGED <<conf, run, pre, libI, c, remoteIndexer, remoteMatcher, n>>

\* c, _, err := i.conf.Client(nil, notifierClaim): the authenticated
\* result is discarded.
ComboClient ==
    /\ pc = "combo:Client"
    /\ \E ok \in BOOLEAN, auth \in BOOLEAN :
         /\ log' = Append(log, Entry("conf.Client", notifierClaim, ok, ok /\ auth))
         /\ IF ok
            THEN /\ c' = HTTPClient(notifierClaim, auth)
                 /\ pc' = "combo:notifier.New"
                 /\ UNCHANGED <<err, fields>>
            ELSE /\ Fail("client")
                 /\ UNCHANGED c
    /\ UNCHANGED <<conf, run, pre, libI, libV, remoteIndexer, remoteMatcher, n>>

\* The notifier.Opts literal of the ComboMode case.
ComboOpts ==
    [ZeroOpts EXCEPT
       !.DeliveryInterval = conf.Notifier.DeliveryInterval,
       !.ConnString = conf.Notifier.ConnString,
       !.Indexer = libI,
       !.Matcher = libV,
       !.Client = c,
       !.Migrations = conf.Notifier.Migrations,
       !.PollInterval = conf.Notifier.PollInterval,
       !.DisableSummary = conf.Notifier.DisableSummary,
       !.Webhook = conf.Notifier.Webhook,
       !.AMQP = conf.Notifier.AMQP,
       !.STOMP = conf.Notifier.STOMP]

\* n, err := notifier.New(...); on success the three fields are assigned.
ComboNotifierNew ==
    /\ pc = "combo:notifier.New"
    /\ \E ok \in BOOLEAN :
         /\ log' = Append(log, Entry("notifier.New", ComboOpts, ok, FALSE))
         /\ IF ok
            THEN /\ n' = LocalNotifier(ComboOpts, run)
                 /\ Indexer' = libI
                 /\ Matcher' = libV
                 /\ Notifier' = n'
                 /\ pc' = "done"
                 /\ err' = "nil"
            ELSE /\ Fail("notifier failed to initialize")
                 /\ UNCHANGED n
    /\ UNCHANGED <<conf, run, pre, libI, libV, c, remoteIndexer, remoteMatcher>>

----------------------------------------------------------------------------
\* case config.IndexerMode

\* libI, err := libindex.New(...); i.Indexer = libI; i.Matcher = nil
IndexerLibindexNew ==
    /\ pc = "indexer:libindex.New"
    /\ \E ok \in BOOLEAN :
         /\ log' = Append(log, Entry("libindex.New", "", ok, FALSE))
         /\ IF ok
            THEN /\ libI' = LocalIndexer(run)
                 /\ Indexer' = libI'
                 /\ Matcher' = Nil
                 /\ UNCHANGED Notifier
                 /\ pc' = "done"
                 /\ err' = "nil"
            ELSE /\ Fail("failed to initialize libindex")
                 /\ UNCHANGED libI
    /\ UNCHANGED <<conf, run, pre, libV, c, remoteIndexer, remoteMatcher, n>>

----------------------------------------------------------------------------
\* case config.MatcherMode

\* libV, err := libvuln.New(...)
MatcherLibvulnNew ==
    /\ pc = "matcher:libvuln.New"
    /\ \E ok \in BOOLEAN :
         /\ log' = Append(log, Entry("libvuln.New", "", ok, FALSE))
         /\ IF ok
            THEN /\ libV' = LocalMatcher(run)
                 /\ pc' = "matcher:Client"
                 /\ UNCHANGED <<err, fields>>
            ELSE /\ Fail("failed to initialize libvuln")
                 /\ UNCHANGED libV
    /\ UNCHANGED <<conf, run, pre, libI, c, remoteIndexer, remoteMatcher, n>>

\* MatcherClient as it would be if the authenticated result were discarded,
\* as the notifier-claim calls do.
MatcherClientNoGate ==
    /\ pc = "matcher:Client"
    /\ \E ok \in BOOLEAN, auth \in BOOLEAN :
         /\ log' = Append(log, Entry("conf.Client", intraserviceClaim, ok, ok /\ auth))
         /\ IF ~ok
            THEN /\ Fail("client")
                 /\ UNCHANGED c
            ELSE /\ c' = HTTPClient(intraserviceClaim, auth)
                 /\ pc' = "matcher:NewHTTP"
                 /\ UNCHANGED <<err, fields>>
    /\ UNCHANGED <<conf, run, pre, libI, libV, remoteIndexer, remoteMatcher, n>>

\* MatcherClient as it would be if the error of conf.Client were not
\* checked before the remote indexer is built.
MatcherClientErrIgnored ==
    /\ pc = "matcher:Client"
    /\ \E ok \in BOOLEAN, auth \in BOOLEAN :
         /\ log' = Append(log, Entry("conf.Client", intraserviceClaim, ok, ok /\ auth))
         /\ c' = IF ok THEN HTTPClient(intraserviceClaim, auth) ELSE Nil
         /\ IF ok /\ ~auth /\ conf.AuthAny
            THEN Fail("client authorization required but not provided")
            ELSE /\ pc' = "matcher:NewHTTP"
                 /\ UNCHANGED <<err, fields>>
    /\ UNCHANGED <<conf, run, pre, libI, libV, remoteIndexer, remoteMatcher, n>>

\* c, auth, err := i.conf.Client(nil, intraserviceClaim)
\* switch { case err != nil: ...; case !auth && i.conf.Auth.Any(): ... }
MatcherClient ==
    /\ pc = "matcher:Client"
    /\ \E ok \in BOOLEAN, auth \in BOOLEAN :
         /\ log' = Append(log, Entry("conf.Client", intraserviceClaim, ok, ok /\ auth))
         /\ IF ~ok
            THEN /\ Fail("client")
                 /\ UNCHANGED c
            ELSE /\ c' = HTTPClient(intraserviceClaim, auth)
                 /\ IF ~auth /\ conf.AuthAny
                    THEN Fail("client authorization required but not provided")
                    ELSE /\ pc' = "matcher:NewHTTP"
                         /\ UNCHANGED <<err, fields>>
    /\ UNCHANGED <<conf, run, pre, libI, libV, remoteIndexer, remoteMatcher, n>>

\* MatcherNewHTTP as it would be without the assignment i.Matcher = libV.
MatcherNewHTTPNoMatcher ==
    /\ pc = "matcher:NewHTTP"
    /\ \E ok \in BOOLEAN :
         /\ log' = Append(log, Entry("client.NewHTTP", conf.Matcher.IndexerAddr, ok, FALSE))
         /\ IF ok
            THEN /\ remoteIndexer' = RemoteHandle(conf.Matcher.IndexerAddr, c, run)
                 /\ Indexer' = remoteIndexer'
                 /\ UNCHANGED <<Matcher, Notifier>>
                 /\ pc' = "done"
                 /\ err' = "nil"
            ELSE /\ Fail("newhttp")
                 /\ UNCHANGED remoteIndexer
    /\ UNCHANGED <<conf, run, pre, libI, libV, c, remoteMatcher, n>>

\* remoteIndexer, err := client.NewHTTP(WithAddr(i.conf.Matcher.IndexerAddr),
\* WithClient(c)); i.Indexer = remoteIndexer; i.Matcher = libV
MatcherNewHTTP ==
    /\ pc = "matcher:NewHTTP"
    /\ \E ok \in BOOLEAN :
         /\ log' = Append(log, Entry("client.NewHTTP", conf.Matcher.IndexerAddr, ok, FALSE))
         /\ IF ok
            THEN /\ remoteIndexer' = RemoteHandle(conf.Matcher.IndexerAddr, c, run)
                 /\ Indexer' = remoteIndexer'
                 /\ Matcher' = libV
                 /\ UNCHANGED Notifier
                 /\ pc' = "done"
                 /\ err' = "nil"
            ELSE /\ Fail("newhttp")
                 /\ UNCHANGED remoteIndexer
    /\ UNCHANGED <<conf, run, pre, libI, libV, c, remoteMatcher, n>>

----------------------------------------------------------------------------
\* case config.NotifierMode

\* c, auth, err := i.conf.Client(nil, intraserviceClaim)
\* switch { case err != nil: ...; case !auth && i.conf.Auth.Any(): ... }
NotifierClient ==
    /\ pc = "notifier:Client"
    /\ \E ok \in BOOLEAN, auth \in BOOLEAN :
         /\ log' = Append(log, Entry("conf.Client", intraserviceClaim, ok, ok /\ auth))
         /\ IF ~ok
            THEN /\ Fail("client")
                 /\ UNCHANGED c
            ELSE /\ c' = HTTPClient(intraserviceClaim, auth)
                 /\ IF ~auth /\ conf.AuthAny
                    THEN Fail("client authorization required but not provided")
                    ELSE /\ pc' = "notifier:NewHTTP.indexer"
                         /\ UNCHANGED <<err, fields>>
    /\ UNCHANGED <<conf, run, pre, libI, libV, remoteIndexer, remoteMatcher, n>>

\* remoteIndexer, err := client.NewHTTP(WithAddr(i.conf.Notifier.IndexerAddr),
\* WithClient(c))
NotifierNewHTTPIndexer ==
    /\ pc = "notifier:NewHTTP.indexer"
    /\ \E ok \in BOOLEAN :
         /\ log' = Append(log, Entry("client.NewHTTP", conf.Notifier.IndexerAddr, ok, FALSE))
         /\ IF ok
            THEN /\ remoteIndexer' = RemoteHandle(conf.Notifier.IndexerAddr, c, run)
                 /\ pc' = "notifier:NewHTTP.matcher"
                 /\ UNCHANGED <<err, fields>>
            ELSE /\ Fail("newhttp")
                 /\ UNCHANGED remoteIndexer
    /\ UNCHANGED <<conf, run, pre, libI, libV, c, remoteMatcher, n>>

\* NotifierNewHTTPMatcher as it would be if the remote matcher were pointed
\* at the indexer address.
NotifierNewHTTPMatcherWrongAddr ==
    /\ pc = "notifier:NewHTTP.matcher"
    /\ \E ok \in BOOLEAN :
         /\ log' = Append(log, Entry("client.NewHTTP", conf.Notifier.MatcherAddr, ok, FALSE))
         /\ IF ok
            THEN /\ remoteMatcher' = RemoteHandle(conf.Notifier.IndexerAddr, c, run)
                 /\ pc' = "notifier:Client.notifier"
                 /\ UNCHANGED <<err, fields>>
            ELSE /\ Fail("newhttp")
                 /\ UNCHANGED remoteMatcher
    /\ UNCHANGED <<conf, run, pre, libI, libV, c, remoteIndexer, n>>

\* remoteMatcher, err := client.NewHTTP(WithAddr(i.conf.Notifier.MatcherAddr),
\* WithClient(c))
NotifierNewHTTPMatcher ==
    /\ pc = "notifier:NewHTTP.matcher"
    /\ \E ok \in BOOLEAN :
         /\ log' = Append(log, Entry("client.NewHTTP", conf.Notifier.MatcherAddr, ok, FALSE))
         /\ IF ok
            THEN /\ remoteMatcher' = RemoteHandle(conf.Notifier.MatcherAddr, c, run)
                 /\ pc' = "notifier:Client.notifier"
                 /\ UNCHANGED <<err, fields>>
            ELSE /\ Fail("newhttp")
                 /\ UNCHANGED remoteMatcher
    /\ UNCHANGED <<conf, run, pre, libI, libV, c, remoteIndexer, n>>

\* c, _, err = i.conf.Client(nil, notifierClaim): c is reassigned, the
\* authenticated result is discarded.
NotifierClientNotifier ==
    /\ pc = "notifier:Client.notifier"
    /\ \E ok \in BOOLEAN, auth \in BOOLEAN :
         /\ log' = Append(log, Entry("conf.Client", notifierClaim, ok, ok /\ auth))
         /\ IF ok
            THEN /\ c' = HTTPClient(notifierClaim, auth)
                 /\ pc' = "notifier:notifier.New"
                 /\ UNCHANGED <<err, fields>>
            ELSE /\ Fail("client")
                 /\ c' = Nil
    /\ UNCHANGED <<conf, run, pre, libI, libV, remoteIndexer, remoteMatcher, n>>

\* The notifier.Opts literal of the NotifierMode case: it names no
\* DisableSummary field.
NotifierOpts ==
    [ZeroOpts EXCEPT
       !.DeliveryInterval = conf.Notifier.DeliveryInterval,
       !.ConnString = conf.Notifier.ConnString,
       !.Indexer = remoteIndexer,
       !.Matcher = remoteMatcher,
       !.Client = c,
       !.Migrations = conf.Notifier.Migrations,
       !.PollInterval = conf.Notifier.PollInterval,
       !.Webhook = conf.Notifier.Webhook,
       !.AMQP = conf.Notifier.AMQP,
       !.STOMP = conf.Notifier.STOMP]

\* n, err := notifier.New(...); on success the three fields are assigned.
NotifierNotifierNew ==
    /\ pc = "notifier:notifier.New"
    /\ \E ok \in BOOLEAN :
         /\ log' = Append(log, Entry("notifier.New", NotifierOpts, ok, FALSE))
         /\ IF ok
            THEN /\ n' = LocalNotifier(NotifierOpts, run)
                 /\ Indexer' = remoteIndexer
                 /\ Matcher' = remoteMatcher
                 /\ Notifier' = n'
                 /\ pc' = "done"
                 /\ err' = "nil"
            ELSE /\ Fail("notifier failed to initialize")
                 /\ UNCHANGED n
    /\ UNCHANGED <<conf, run, pre, libI, libV, c, remoteIndexer, remoteMatcher>>

----------------------------------------------------------------------------
\* The caller

\* Services() has returned; its frame is gone.
Return ==
    /\ pc = "done"
    /\ pc' = "idle"
    /\ log' = <<>>
    /\ pre' = fields
    /\ err' = "nil"
    /\ libI' = Nil /\ libV' = Nil /\ c' = Nil
    /\ remoteIndexer' = Nil /\ remoteMatcher' = Nil /\ n' = Nil
    /\ UNCHANGED <<conf, run, fields>>

\* Between two calls the Init is given another configuration (i.conf is
\* read afresh by every call of Services).
Reconfigure ==
    /\ pc = "idle"
    /\ run > 0
    /\ \E cf \in Confs \ {conf} : conf' = cf
    /\ UNCHANGED <<fields, pc, err, run, pre, log, locals>>

Next ==
    \/ Services
    \/ DefaultCase
    \/ ComboLibindexNew
    \/ ComboLibvulnNew
    \/ ComboClient
    \/ ComboNotifierNew
    \/ IndexerLibindexNew
    \/ MatcherLibvulnNew
    \/ MatcherClient
    \/ MatcherNewHTTP
    \/ NotifierClient
    \/ NotifierNewHTTPIndexer
    \/ NotifierNewHTTPMatcher
    \/ NotifierClientNotifier
    \/ NotifierNotifierNew
    \/ Return
    \/ Reconfigure

Spec == Init /\ [][Next]_vars

----------------------------------------------------------------------------
\* Properties

Fresh == <<Nil, Nil, Nil>>

IsLocal(h, svc) == h.kind = "local" /\ h.svc = svc
IsRemote(h) == h.kind = "remote"

\* The current run called fn with argument arg.
Called(fn) == \E k \in 1..Len(log) : log[k].fn = fn

\* conf.Client(nil, intraserviceClaim) returned without error, reporting
\* the given authenticated value.
IntraClientBuilt(auth) ==
    \E k \in 1..Len(log) :
        /\ log[k].fn = "conf.Client"
        /\ log[k].arg = intraserviceClaim
        /\ log[k].ok
        /\ log[k].auth = auth

\* conf.Client(nil, intraserviceClaim) returned an error.
IntraClientFailed ==
    \E k \in 1..Len(log) :
        /\ log[k].fn = "conf.Client"
        /\ log[k].arg = intraserviceClaim
        /\ ~log[k].ok

\* The error Services() returns when a call to fn fails.
ErrOf(fn) ==
    CASE fn = "libindex.New" -> "failed to initialize libindex"
      [] fn = "libvuln.New" -> "failed to initialize libvuln"
      [] fn = "conf.Client" -> "client"
      [] fn = "client.NewHTTP" -> "newhttp"
      [] fn = "notifier.New" -> "notifier failed to initialize"

\* Service instances the current run constructed that no field holds.
\* Services() closes nothing, so such an instance is live and unreachable.
Leaked == {h \in {libI, libV, n} : h # Nil /\ h \notin {Indexer, Matcher, Notifier}}

\* C1: run on a fresh Init, a successful Services() sets exactly the handles
\* of the mode table: combo local/local/local, indexer local/unset/unset,
\* matcher remote/local/unset, notifier remote/remote/local.
C1_ModeTable ==
    (pc = "done" /\ err = "nil" /\ pre = Fresh) =>
        CASE conf.Mode = ComboMode ->
               /\ IsLocal(Indexer, "libindex")
               /\ IsLocal(Matcher, "libvuln")
               /\ IsLocal(Notifier, "notifier")
          [] conf.Mode = IndexerMode ->
               /\ IsLocal(Indexer, "libindex")
               /\ Matcher = Nil
               /\ Notifier = Nil
          [] conf.Mode = MatcherMode ->
               /\ IsRemote(Indexer)
               /\ IsLocal(Matcher, "libvuln")
               /\ Notifier = Nil
          [] conf.Mode = NotifierMode ->
               /\ IsRemote(Indexer)
               /\ IsRemote(Matcher)
               /\ IsLocal(Notifier, "notifier")
          [] OTHER -> FALSE

C1_Witness ==
    /\ pc = "done" /\ err = "nil" /\ pre = Fresh
    /\ conf.Mode = MatcherMode
    /\ IsRemote(Indexer) /\ IsLocal(Matcher, "libvuln") /\ Notifier = Nil

\* C2: in matcher and notifier mode, when the intra-service client is built
\* with authenticated = false and Auth.Any() is true, Services() ends with
\* the authorization-required error, the three fields are as before the
\* call (unset on a fresh Init) and client.NewHTTP was never called.
C2_AuthRequired ==
    (conf.Mode \in {MatcherMode, NotifierMode} /\ conf.AuthAny /\ IntraClientBuilt(FALSE)) =>
        /\ pc = "done"
        /\ err = "client authorization required but not provided"
        /\ fields = pre
        /\ (pre = Fresh => Indexer = Nil /\ Matcher = Nil /\ Notifier = Nil)
        /\ ~Called("client.NewHTTP")
        /\ remoteIndexer = Nil /\ remoteMatcher = Nil

C2_Witness ==
    /\ conf.Mode = MatcherMode /\ conf.AuthAny /\ IntraClientBuilt(FALSE)
    /\ pc = "done" /\ pre = Fresh
    /\ err = "client authorization required but not provided"

\* C3: in combo mode, when libvuln.New fails after libindex.New succeeded,
\* Services() returns an error, leaves the fields as they were, and no
\* constructed service instance is left live and unpublished.
C3_NoLeakOnMatcherFailure ==
    (pc = "done" /\ conf.Mode = ComboMode /\ Len(log) = 2 /\ ~log[2].ok) =>
        /\ err # "nil"
        /\ fields = pre
        /\ Leaked = {}

\* C4 as stated: in matcher mode, when conf.Client fails, libvuln.New was
\* never called on that run.
C4_ClientBeforeMatcher ==
    (conf.Mode = MatcherMode /\ IntraClientFailed) => ~Called("libvuln.New")

\* C4 as amended: in matcher mode, when conf.Client fails, Services() returns
\* that error before client.NewHTTP is called; libvuln.New has been called
\* once, successfully, before the client build.
C4_ClientBeforeRemote ==
    (conf.Mode = MatcherMode /\ IntraClientFailed) =>
        /\ pc = "done"
        /\ err = "client"
        /\ Len(log) = 2
        /\ log[1].fn = "libvuln.New" /\ log[1].ok
        /\ ~Called("client.NewHTTP")
        /\ remoteIndexer = Nil
        /\ fields = pre

C4_Witness ==
    /\ conf.Mode = MatcherMode /\ IntraClientFailed
    /\ pc = "done" /\ err = "client"

\* C5: in every mode the first failing construction step ends the call: it
\* is the last step of the run, its error is returned, no step is called
\* twice, and the three fields are as they were before the call; while a
\* call is in progress nothing is published.
C5_FirstFailureAborts ==
    /\ \A k \in 1..Len(log) :
         ~log[k].ok =>
            /\ k = Len(log)
            /\ pc = "done"
            /\ err = ErrOf(log[k].fn)
            /\ fields = pre
    /\ \A j, k \in 1..Len(log) :
         (j # k /\ log[j].fn = log[k].fn) => log[j].arg # log[k].arg
    /\ (pc \notin {"idle", "done"} => fields = pre)
    /\ (pc = "done" /\ err # "nil" => fields = pre)

C5_Witness ==
    /\ pc = "done" /\ conf.Mode = NotifierMode
    /\ Len(log) = 5 /\ ~log[5].ok
    /\ err = "notifier failed to initialize"
    /\ pre # Fresh /\ fields = pre

\* C6: for a mode outside the four known ones Services() returns the mode
\* error, calls no constructor and no client build, and leaves the fields
\* unchanged; it never enters another mode's case.
C6_UnknownModeFails ==
    (conf.Mode \notin KnownModes) =>
        /\ pc \in {"idle", "done"}
        /\ log = <<>>
        /\ libI = Nil /\ libV = Nil /\ c = Nil
        /\ remoteIndexer = Nil /\ remoteMatcher = Nil /\ n = Nil
        /\ (pc = "done" =>
              /\ err = "could not determine passed in mode"
              /\ fields = pre)

C6_Witness ==
    /\ pc = "done" /\ conf.Mode = ""
    /\ err = "could not determine passed in mode"
    /\ log = <<>> /\ fields = pre

\* C7: in combo and notifier mode, when Auth.Any() is true, a successful
\* Services() never publishes a Notifier whose client was built with
\* authenticated = false.
C7_NotifierClientAuthenticated ==
    (pc = "done" /\ err = "nil" /\ conf.Mode \in {ComboMode, NotifierMode} /\ conf.AuthAny) =>
        Notifier.opts.Client = HTTPClient(notifierClaim, TRUE)

\* C8: in notifier mode the options notifier.New receives carry the two
\* remote handles and every delivery setting with its configured value,
\* the summary-disable flag included.
C8_NotifierOptsComplete ==
    (conf.Mode = NotifierMode /\ Called("notifier.New")) =>
        LET o == log[Len(log)].arg IN
        /\ o.Indexer = remoteIndexer /\ o.Matcher = remoteMatcher
        /\ o.DeliveryInterval = conf.Notifier.DeliveryInterval
        /\ o.ConnString = conf.Notifier.ConnString
        /\ o.PollInterval = conf.Notifier.PollInterval
        /\ o.Migrations = conf.Notifier.Migrations
        /\ o.DisableSummary = conf.Notifier.DisableSummary
        /\ o.Webhook = conf.Notifier.Webhook
        /\ o.AMQP = conf.Notifier.AMQP
        /\ o.STOMP = conf.Notifier.STOMP

\* C9: in notifier mode with Auth.Any() true, the intra-service client
\* built with authenticated = true and no constructor failing, Services()
\* succeeds; Indexer and Matcher are remote handles at the notifier-side
\* indexer and matcher addresses over the intra-service client, and the
\* Notifier is a local service constructed with exactly those two handles.
C9_NotifierTopology ==
    (/\ pc = "done" /\ conf.Mode = NotifierMode /\ conf.AuthAny
     /\ IntraClientBuilt(TRUE)
     /\ \A k \in 1..Len(log) : log[k].ok) =>
        /\ err = "nil"
        /\ Indexer = RemoteHandle(conf.Notifier.IndexerAddr,
                                  HTTPClient(intraserviceClaim, TRUE), run)
        /\ Matcher = RemoteHandle(conf.Notifier.MatcherAddr,
                                  HTTPClient(intraserviceClaim, TRUE), run)
        /\ IsLocal(Notifier, "notifier")
        /\ Notifier.gen = run
        /\ Notifier.opts.Indexer = Indexer
        /\ Notifier.opts.Matcher = Matcher

C9_Witness ==
    /\ pc = "done" /\ conf.Mode = NotifierMode /\ conf.AuthAny
    /\ IntraClientBuilt(TRUE)
    /\ \A k \in 1..Len(log) : log[k].ok
    /\ err = "nil"
    /\ IsRemote(Indexer) /\ IsRemote(Matcher)

====
